---- MODULE Spec2Model ----
(***************************************************************************)
(* Probability model of the Shadowverse: Worlds Beyond calculator.         *)
(*                                                                         *)
(* The program computes with JavaScript numbers.  Every value it forms is  *)
(* a ratio of products and sums of small integers, so the model computes   *)
(* with exact rationals: a natural number is a sequence of base-10000      *)
(* limbs, least significant first (the empty sequence is zero), and a      *)
(* rational is a record [neg, n, d] with d > 0.                            *)
(***************************************************************************)
EXTENDS Integers, Sequences, FiniteSets, TLC

\* A state is one call of one of the program's functions: the function, its
\* arguments and, once it has returned, the value it returned.
VARIABLES fn, args, ret

vars == <<fn, args, ret>>

----------------------------------------------------------------------------
(* Natural numbers of unbounded size.                                      *)

RECURSIVE BigOfInt(_)
BigOfInt(x) ==
  IF x = 0 THEN <<>> ELSE <<x % 10000>> \o BigOfInt(x \div 10000)

RECURSIVE BigStrip(_)
BigStrip(a) ==
  IF a = <<>> THEN a
  ELSE IF a[Len(a)] = 0 THEN BigStrip(SubSeq(a, 1, Len(a) - 1)) ELSE a

RECURSIVE BigCmpFrom(_, _, _)
BigCmpFrom(a, b, i) ==
  IF i = 0 THEN 0
  ELSE IF a[i] < b[i] THEN -1
  ELSE IF a[i] > b[i] THEN 1
  ELSE BigCmpFrom(a, b, i - 1)

BigCmp(a, b) ==
  IF Len(a) < Len(b) THEN -1
  ELSE IF Len(a) > Len(b) THEN 1
  ELSE BigCmpFrom(a, b, Len(a))

RECURSIVE BigAddFrom(_, _, _, _)
BigAddFrom(a, b, i, carry) ==
  IF i > Len(a) /\ i > Len(b)
  THEN (IF carry = 0 THEN <<>> ELSE <<carry>>)
  ELSE LET t == (IF i <= Len(a) THEN a[i] ELSE 0)
                + (IF i <= Len(b) THEN b[i] ELSE 0) + carry
       IN  <<t % 10000>> \o BigAddFrom(a, b, i + 1, t \div 10000)

BigAdd(a, b) ==
  IF a = <<>> THEN b ELSE IF b = <<>> THEN a ELSE BigAddFrom(a, b, 1, 0)

\* a - b for a >= b
RECURSIVE BigSubFrom(_, _, _, _)
BigSubFrom(a, b, i, borrow) ==
  IF i > Len(a) THEN <<>>
  ELSE LET t == a[i] - (IF i <= Len(b) THEN b[i] ELSE 0) - borrow
       IN  IF t < 0 THEN <<t + 10000>> \o BigSubFrom(a, b, i + 1, 1)
           ELSE <<t>> \o BigSubFrom(a, b, i + 1, 0)

BigSub(a, b) == IF b = <<>> THEN a ELSE BigStrip(BigSubFrom(a, b, 1, 0))

\* a * s for 0 <= s < 10000
RECURSIVE BigMulSmallFrom(_, _, _, _)
BigMulSmallFrom(a, s, i, carry) ==
  IF i > Len(a) THEN (IF carry = 0 THEN <<>> ELSE <<carry>>)
  ELSE LET t == a[i] * s + carry
       IN  <<t % 10000>> \o BigMulSmallFrom(a, s, i + 1, t \div 10000)

BigMulSmall(a, s) ==
  IF s = 0 \/ a = <<>> THEN <<>>
  ELSE IF s = 1 THEN a
  ELSE BigMulSmallFrom(a, s, 1, 0)

\* the sum of a[i] * b[j - i + 1] for i in lo..hi
RECURSIVE BigMulColumn(_, _, _, _, _)
BigMulColumn(a, b, j, i, hi) ==
  IF i > hi THEN 0 ELSE a[i] * b[j - i + 1] + BigMulColumn(a, b, j, i + 1, hi)

\* Schoolbook product by columns; Len(b) <= 20 keeps a column below 2^31.
RECURSIVE BigMulFrom(_, _, _, _)
BigMulFrom(a, b, j, carry) ==
  IF j >= Len(a) + Len(b) THEN BigOfInt(carry)
  ELSE LET lo == IF j > Len(b) THEN j - Len(b) + 1 ELSE 1
           hi == IF j < Len(a) THEN j ELSE Len(a)
           t == BigMulColumn(a, b, j, lo, hi) + carry
       IN  <<t % 10000>> \o BigMulFrom(a, b, j + 1, t \div 10000)

BigMul(a, b) ==
  IF a = <<>> \/ b = <<>> THEN <<>>
  ELSE IF Len(b) = 1 THEN BigMulSmall(a, b[1])
  ELSE IF Len(a) = 1 THEN BigMulSmall(b, a[1])
  ELSE IF Len(a) >= Len(b) THEN BigMulFrom(a, b, 1, 0) ELSE BigMulFrom(b, a, 1, 0)

\* a mod s and a div s for 0 < s < 200000
RECURSIVE BigModSmallFrom(_, _, _, _)
BigModSmallFrom(a, s, i, rem) ==
  IF i = 0 THEN rem ELSE BigModSmallFrom(a, s, i - 1, (rem * 10000 + a[i]) % s)

BigModSmall(a, s) == BigModSmallFrom(a, s, Len(a), 0)

RECURSIVE BigDivSmallFrom(_, _, _, _)
BigDivSmallFrom(a, s, i, rem) ==
  IF i = 0 THEN <<>>
  ELSE LET cur == rem * 10000 + a[i]
       IN  BigDivSmallFrom(a, s, i - 1, cur % s) \o <<cur \div s>>

BigDivSmall(a, s) == IF s = 1 THEN a ELSE BigStrip(BigDivSmallFrom(a, s, Len(a), 0))

RECURSIVE GCD(_, _)
GCD(a, b) == IF b = 0 THEN a ELSE GCD(b, a % b)

----------------------------------------------------------------------------
(* Rational numbers.                                                       *)

\* Products of the primes below 76, each small enough to divide a limb sequence by.
PrimeProducts == <<30030, 7429, 33263, 82861, 190747, 4757, 73>>

Rat(neg, n, d) == [neg |-> neg /\ n # <<>>, n |-> n, d |-> IF n = <<>> THEN <<1>> ELSE d]

RInt(x) == IF x < 0 THEN Rat(TRUE, BigOfInt(-x), <<1>>) ELSE Rat(FALSE, BigOfInt(x), <<1>>)

RZero == RInt(0)
ROne == RInt(1)

\* Divide n and d by their common factors among the primes below 76, for the
\* products from index i on.  Every denominator the program forms is a product
\* of integers below 77, so the result is in lowest terms.
RECURSIVE ReduceFrom(_, _, _)
ReduceFrom(n, d, i) ==
  IF i > Len(PrimeProducts) \/ d = <<1>> THEN <<n, d>>
  ELSE LET gd == GCD(PrimeProducts[i], BigModSmall(d, PrimeProducts[i]))
       IN  IF gd = 1 THEN ReduceFrom(n, d, i + 1)
           ELSE LET g == GCD(gd, BigModSmall(n, gd))
                IN  IF g = 1 THEN ReduceFrom(n, d, i + 1)
                    ELSE ReduceFrom(BigDivSmall(n, g), BigDivSmall(d, g), i)

RReduce(a) ==
  IF a.n = <<>> \/ a.d = <<1>> THEN a
  ELSE LET r == ReduceFrom(a.n, a.d, 1) IN Rat(a.neg, r[1], r[2])

\* Cancel a one-limb denominator d against the numerator n.
CancelSmall(n, d) ==
  IF Len(d) # 1 \/ d = <<1>> \/ n = <<>> THEN <<n, d>>
  ELSE LET g == GCD(d[1], BigModSmall(n, d[1]))
       IN  IF g = 1 THEN <<n, d>> ELSE <<BigDivSmall(n, g), BigOfInt(d[1] \div g)>>

RMul(a, b) ==
  IF b.n = <<>> \/ a.n = <<>> THEN RZero
  ELSE LET x == CancelSmall(a.n, b.d)
           y == CancelSmall(b.n, a.d)
       IN  Rat(a.neg # b.neg, BigMul(x[1], y[1]), BigMul(y[2], x[2]))

\* a / b for b # 0
RDiv(a, b) == RMul(a, Rat(b.neg, b.d, b.n))

RNeg(a) == Rat(~a.neg, a.n, a.d)

\* The sign of a - b: -1, 0 or 1.
RCmp(a, b) ==
  IF a.neg # b.neg THEN (IF a.neg THEN -1 ELSE 1)
  ELSE LET c == IF a.d = b.d THEN BigCmp(a.n, b.n)
                ELSE BigCmp(BigMul(a.n, b.d), BigMul(b.n, a.d))
       IN  IF a.neg THEN -c ELSE c

RAdd(a, b) ==
  IF a.n = <<>> THEN b
  ELSE IF b.n = <<>> THEN a
  ELSE LET x == IF a.d = b.d THEN a.n ELSE BigMul(a.n, b.d)
           y == IF a.d = b.d THEN b.n ELSE BigMul(b.n, a.d)
           d == IF a.d = b.d THEN a.d ELSE BigMul(a.d, b.d)
           r == IF a.neg = b.neg THEN Rat(a.neg, BigAdd(x, y), d)
                ELSE IF BigCmp(x, y) >= 0 THEN Rat(a.neg, BigSub(x, y), d)
                ELSE Rat(b.neg, BigSub(y, x), d)
       IN  IF a.d = <<1>> \/ b.d = <<1>> THEN r ELSE RReduce(r)

RSub(a, b) == RAdd(a, RNeg(b))

REq(a, b) == RCmp(a, b) = 0
RLeq(a, b) == RCmp(a, b) <= 0

MathMax(a, b) == IF RCmp(a, b) >= 0 THEN a ELSE b
MathMin(a, b) == IF RCmp(a, b) <= 0 THEN a ELSE b

----------------------------------------------------------------------------
(* The probability model.  The arguments are integers (the page passes     *)
(* the values of its select and of its sliders), on which Math.floor       *)
(* changes nothing.                                                        *)

KeepModes == {"keep", "noKeep"}

\* Math.max(min, Math.min(max, value))
clamp(value, min, max) == MathMax(min, MathMin(max, value))

\* the same on integer arguments
clampInt(value, min, max) ==
  LET inner == IF max <= value THEN max ELSE value
  IN  IF min >= inner THEN min ELSE inner

\* for (let i = 1; i <= kEff; i += 1) result *= (n - kEff + i) / i
\* loop holds the loop's variables: [i, result]
RECURSIVE combinationLoop(_, _, _)
combinationLoop(n, kEff, loop) ==
  IF loop.i <= kEff
  THEN combinationLoop(n, kEff,
         [i |-> loop.i + 1,
          result |-> RMul(loop.result, RDiv(RInt(n - kEff + loop.i), RInt(loop.i)))])
  ELSE loop.result

\* combination returning 0 for kEff = 0
combinationZeroAtEdge(n, k) ==
  IF k < 0 \/ k > n THEN RZero
  ELSE LET kEff == IF k <= n - k THEN k ELSE n - k
       IN  IF kEff = 0 THEN RZero ELSE combinationLoop(n, kEff, [i |-> 1, result |-> ROne])

\* combination with its loop stopping one factor early (i < kEff)
combinationOneFactorShort(n, k) ==
  IF k < 0 \/ k > n THEN RZero
  ELSE LET kEff == IF k <= n - k THEN k ELSE n - k
       IN  IF kEff = 0 THEN ROne
           ELSE combinationLoop(n - 1, kEff - 1, [i |-> 1, result |-> ROne])

combination(n, k) ==
  IF k < 0 \/ k > n THEN RZero
  ELSE LET kEff == IF k <= n - k THEN k ELSE n - k
       IN  IF kEff = 0 THEN ROne ELSE combinationLoop(n, kEff, [i |-> 1, result |-> ROne])

\* for (let i = 0; i < draws; i += 1) { ... product *= numerator / denominator }
\* loop holds the loop's variables: [i, product]
RECURSIVE zeroHitLoop(_, _, _, _)
zeroHitLoop(total, nonTargets, draws, loop) ==
  IF loop.i < draws
  THEN LET numerator == nonTargets - loop.i
           denominator == total - loop.i
       IN  IF numerator <= 0 THEN RZero
           ELSE zeroHitLoop(total, nonTargets, draws,
                  [i |-> loop.i + 1,
                   product |-> RMul(loop.product,
                                    RDiv(RInt(numerator), RInt(denominator)))])
  ELSE loop.product

\* zeroHitHypergeometricRatio returning 1 for draws > total
zeroHitOverdrawIsOne(total, targetInDeck, draws) ==
  IF draws <= 0 THEN ROne
  ELSE IF targetInDeck <= 0 THEN ROne
  ELSE IF total <= 0 THEN ROne
  ELSE IF draws > total THEN ROne
  ELSE LET nonTargets == total - targetInDeck
       IN  IF nonTargets < 0 THEN RZero
           ELSE zeroHitLoop(total, nonTargets, draws, [i |-> 0, product |-> ROne])

\* zeroHitHypergeometricRatio returning 0 for targetInDeck <= 0
zeroHitNoTargetsIsZero(total, targetInDeck, draws) ==
  IF draws <= 0 THEN ROne
  ELSE IF targetInDeck <= 0 THEN RZero
  ELSE IF total <= 0 THEN ROne
  ELSE IF draws > total THEN RZero
  ELSE LET nonTargets == total - targetInDeck
       IN  IF nonTargets < 0 THEN RZero
           ELSE zeroHitLoop(total, nonTargets, draws, [i |-> 0, product |-> ROne])

\* zeroHitHypergeometricRatio with its loop starting at i = 1
zeroHitLoopFromOne(total, targetInDeck, draws) ==
  IF draws <= 0 THEN ROne
  ELSE IF targetInDeck <= 0 THEN ROne
  ELSE IF total <= 0 THEN ROne
  ELSE IF draws > total THEN RZero
  ELSE LET nonTargets == total - targetInDeck
       IN  IF nonTargets < 0 THEN RZero
           ELSE zeroHitLoop(total, nonTargets, draws, [i |-> 1, product |-> ROne])

\* zeroHitHypergeometricRatio testing draws > total before targetInDeck <= 0
zeroHitOverdrawFirst(total, targetInDeck, draws) ==
  IF draws <= 0 THEN ROne
  ELSE IF draws > total THEN RZero
  ELSE IF targetInDeck <= 0 THEN ROne
  ELSE IF total <= 0 THEN ROne
  ELSE LET nonTargets == total - targetInDeck
       IN  IF nonTargets < 0 THEN RZero
           ELSE zeroHitLoop(total, nonTargets, draws, [i |-> 0, product |-> ROne])

zeroHitHypergeometricRatio(total, targetInDeck, draws) ==
  IF draws <= 0 THEN ROne
  ELSE IF targetInDeck <= 0 THEN ROne
  ELSE IF total <= 0 THEN ROne
  ELSE IF draws > total THEN RZero
  ELSE LET nonTargets == total - targetInDeck
       IN  IF nonTargets < 0 THEN RZero
           ELSE zeroHitLoop(total, nonTargets, draws, [i |-> 0, product |-> ROne])

\* The functions are pure, so a value computed once stands for every call
\* with the same arguments: TLC evaluates each table below once.  A call
\* whose arguments fall outside a table computes the function directly.
zeroHitTable ==
  [total \in {36, 40}, targetInDeck \in 0..40, draws \in 0..40 |->
     zeroHitHypergeometricRatio(total, targetInDeck, draws)]

zeroHit(total, targetInDeck, draws) ==
  IF <<total, targetInDeck, draws>> \in DOMAIN zeroHitTable
  THEN zeroHitTable[total, targetInDeck, draws]
  ELSE zeroHitHypergeometricRatio(total, targetInDeck, draws)

combinationTable == [n \in -4..76, k \in 0..40 |-> combination(n, k)]

comb(n, k) ==
  IF <<n, k>> \in DOMAIN combinationTable
  THEN combinationTable[n, k]
  ELSE combination(n, k)

\* for (let k = 0; k <= kMax; k += 1) { ... sum += pl * qLk }
\* pl with the mulligan cards left out of the deck: C(36 - n, l - k)
plFromShortDeck(n, l, denomInitial, k) ==
  LET plNumerator == RMul(comb(n, k), comb(36 - n, l - k))
  IN  IF REq(denomInitial, RZero) THEN RZero
      ELSE RDiv(plNumerator, denomInitial)

\* const plNumerator = ...; const pl = denomInitial === 0 ? 0 : ...
plWeight(n, l, denomInitial, k) ==
  LET plNumerator == RMul(comb(n, k), comb(36 + l - n, l - k))
  IN  IF REq(denomInitial, RZero) THEN RZero
      ELSE RDiv(plNumerator, denomInitial)

\* loop holds the loop's variables: [k, sum]
RECURSIVE noKeepLoop(_, _, _, _, _)
noKeepLoop(n, l, denomInitial, kMax, loop) ==
  IF loop.k <= kMax
  THEN LET pl == plWeight(n, l, denomInitial, loop.k)
           qLk == zeroHit(36, n - loop.k, l)
       IN  noKeepLoop(n, l, denomInitial, kMax,
             [k |-> loop.k + 1, sum |-> RAdd(loop.sum, RMul(pl, qLk))])
  ELSE loop.sum

\* the sum over k of P_l(k) * Q_l(k), for the clamped n and l
noKeepSum(n, l) ==
  LET denomInitial == comb(36 + l, l)
      kMax == IF l <= n THEN l ELSE n
  IN  noKeepLoop(n, l, denomInitial, kMax, [k |-> 0, sum |-> RZero])

noKeepSumTable == [n \in 0..40, l \in 0..40 |-> noKeepSum(n, l)]

\* probabilityAtLeastOne returning a percentage
probabilityAsPercent(keepMode, mulliganCount, targetsInDeck, drawsFromDeck) ==
  LET n == clampInt(targetsInDeck, 0, 40)
      l == clampInt(mulliganCount, 0, 40)
      m == clampInt(drawsFromDeck, 0, 40)
      pNo == IF keepMode = "keep"
             THEN RMul(RMul(zeroHit(40, n, 4), zeroHit(36, n, l)), zeroHit(36, n, m))
             ELSE RMul(zeroHit(36, n, m),
                       IF <<n, l>> \in DOMAIN noKeepSumTable
                       THEN noKeepSumTable[n, l] ELSE noKeepSum(n, l))
  IN  RMul(RInt(100), clamp(RSub(ROne, pNo), RZero, ROne))

probabilityAtLeastOne(keepMode, mulliganCount, targetsInDeck, drawsFromDeck) ==
  LET n == clampInt(targetsInDeck, 0, 40)
      l == clampInt(mulliganCount, 0, 40)
      m == clampInt(drawsFromDeck, 0, 40)
  IN  IF keepMode = "keep"
      THEN LET pNoInitial == zeroHit(40, n, 4)
               pNoMulligan == zeroHit(36, n, l)
               pNoDraws == zeroHit(36, n, m)
               pNo == RMul(RMul(pNoInitial, pNoMulligan), pNoDraws)
           IN  clamp(RSub(ROne, pNo), RZero, ROne)
      ELSE LET qM == zeroHit(36, n, m)
               sum == IF <<n, l>> \in DOMAIN noKeepSumTable
                      THEN noKeepSumTable[n, l] ELSE noKeepSum(n, l)
               pNo == RMul(qM, sum)
           IN  clamp(RSub(ROne, pNo), RZero, ROne)

\* probabilityAtLeastOneKeep drawing the mulligan from the 40-card deck
probabilityKeepFromFullDeck(n, l, m) ==
  LET nn == clampInt(n, 0, 40)
      ll == clampInt(l, 0, 4)
      mm == clampInt(m, 0, 40)
      pNoMulligan == zeroHit(40, nn, ll)
      pNoDraws == zeroHit(36, nn, mm)
      pNo == RMul(pNoMulligan, pNoDraws)
  IN  clamp(RSub(ROne, pNo), RZero, ROne)

probabilityAtLeastOneKeep(n, l, m) ==
  LET nn == clampInt(n, 0, 40)
      ll == clampInt(l, 0, 4)
      mm == clampInt(m, 0, 40)
      pNoMulligan == zeroHit(36, nn, ll)
      pNoDraws == zeroHit(36, nn, mm)
      pNo == RMul(pNoMulligan, pNoDraws)
  IN  clamp(RSub(ROne, pNo), RZero, ROne)

----------------------------------------------------------------------------
(* The table cell: {(p * 100).toFixed(2)}%                                 *)

\* The largest integer k in lo..hi-1 with k <= x, given lo <= x < hi.
RECURSIVE FloorBetween(_, _, _)
FloorBetween(x, lo, hi) ==
  IF hi - lo <= 1 THEN lo
  ELSE LET mid == (lo + hi) \div 2
       IN  IF RLeq(RInt(mid), x) THEN FloorBetween(x, mid, hi)
           ELSE FloorBetween(x, lo, mid)

RECURSIVE FloorBelow(_, _)
FloorBelow(x, hi) ==
  IF RCmp(x, RInt(hi)) < 0 THEN FloorBetween(x, 0, hi) ELSE FloorBelow(x, 2 * hi)

\* Math.floor of a rational x >= 0
MathFloor(x) == FloorBelow(x, 1)

Digits == <<"0", "1", "2", "3", "4", "5", "6", "7", "8", "9">>

RECURSIVE DecimalString(_)
DecimalString(k) ==
  IF k < 10 THEN Digits[k + 1]
  ELSE DecimalString(k \div 10) \o Digits[(k % 10) + 1]

\* Number.prototype.toFixed(2) of x >= 0: the integer k nearest to 100 x (the
\* larger of two equally near), written with a point before its last two digits.
toFixed2(x) ==
  LET k == MathFloor(RAdd(RMul(x, RInt(100)), RDiv(ROne, RInt(2))))
  IN  DecimalString(k \div 100) \o "." \o Digits[((k \div 10) % 10) + 1]
        \o Digits[(k % 10) + 1]

\* the text of a cell of the result table
cellText(p) == toFixed2(RMul(p, RInt(100))) \o "%"

----------------------------------------------------------------------------
(* The calls of the probability functions.                                 *)

MaxTargets == 40
MaxMulligan == 40
MaxDraws == 40

\* Home and the keep-only page: the arguments of a table cell.
Init ==
  /\ fn = "none"
  /\ args \in [targetsInDeck : 0..MaxTargets, mulliganCount : 0..MaxMulligan,
               drawsFromDeck : 0..MaxDraws]
  /\ ret = RZero

\* tableData of Home: probabilityAtLeastOne(keepMode, mulliganCount, n, m)
CallGeneral(keepMode) ==
  /\ fn = "none"
  /\ fn' = keepMode
  /\ ret' = probabilityAtLeastOne(keepMode, args.mulliganCount,
                                     args.targetsInDeck, args.drawsFromDeck)
  /\ UNCHANGED args

\* the table of the keep-only page: probabilityAtLeastOneKeep(n, l, m)
CallKeep ==
  /\ fn = "none"
  /\ fn' = "keepOnly"
  /\ ret' = probabilityAtLeastOneKeep(args.targetsInDeck, args.mulliganCount,
                                         args.drawsFromDeck)
  /\ UNCHANGED args

Next ==
  \/ \E keepMode \in KeepModes : CallGeneral(keepMode)
  \/ CallKeep

Spec == Init /\ [][Next]_vars

----------------------------------------------------------------------------
(* The calls of zeroHitHypergeometricRatio on its own.                     *)

MaxTotal == 40
MaxDrawCount == 41

\* Any deck size, target count and draw count, the inconsistent ones included.
InitZeroHit ==
  /\ fn = "none"
  /\ args \in [total : -1..MaxTotal, targetInDeck : -1..(MaxTotal + 1),
               draws : -1..MaxDrawCount]
  /\ ret = RZero

CallZeroHit ==
  /\ fn = "none"
  /\ fn' = "zeroHit"
  /\ ret' = zeroHitHypergeometricRatio(args.total, args.targetInDeck, args.draws)
  /\ UNCHANGED args

NextZeroHit == CallZeroHit

SpecZeroHit == InitZeroHit /\ [][NextZeroHit]_vars

----------------------------------------------------------------------------
(* The probability functions on any JavaScript number.  An argument is a    *)
(* record [kind, num, den]: the finite number num/den, "NaN", "Infinity" or *)
(* "-Infinity".  After Math.floor and clamp an argument is an integer or    *)
(* NaN, the record [nan, int]; a result is a rational or NaN, the record    *)
(* [nan, val].  A comparison with NaN is false and arithmetic on NaN gives  *)
(* NaN.                                                                    *)

NaNInt == [nan |-> TRUE, int |-> 0]
FiniteInt(x) == [nan |-> FALSE, int |-> x]
NaNNumber == [nan |-> TRUE, val |-> RZero]
FiniteNumber(x) == [nan |-> FALSE, val |-> x]

\* clamp(Math.floor(x), lo, hi) = Math.max(lo, Math.min(hi, Math.floor(x))):
\* Math.floor keeps NaN and the infinities, Math.min and Math.max return NaN
\* when an argument is NaN
clampFloor(x, lo, hi) ==
  IF x.kind = "NaN" THEN NaNInt
  ELSE IF x.kind = "Infinity" THEN FiniteInt(clampInt(hi, lo, hi))
  ELSE IF x.kind = "-Infinity" THEN FiniteInt(lo)
  ELSE FiniteInt(clampInt(x.num \div x.den, lo, hi))

\* a * b
NumberMul(a, b) ==
  IF a.nan \/ b.nan THEN NaNNumber ELSE FiniteNumber(RMul(a.val, b.val))

\* clamp(1 - pNo, 0, 1)
NumberComplement(pNo) ==
  IF pNo.nan THEN NaNNumber
  ELSE FiniteNumber(clamp(RSub(ROne, pNo.val), RZero, ROne))

\* zeroHitHypergeometricRatio(total, targetInDeck, draws) where targetInDeck
\* and draws may be NaN: every test on NaN fails; with draws NaN the loop test
\* i < draws fails at once and product stays 1; with targetInDeck NaN and
\* draws >= 1 the numerator is NaN, numerator <= 0 fails and product becomes NaN
zeroHitNumber(total, targetInDeck, draws) ==
  IF ~draws.nan /\ draws.int <= 0 THEN FiniteNumber(ROne)
  ELSE IF ~targetInDeck.nan /\ targetInDeck.int <= 0 THEN FiniteNumber(ROne)
  ELSE IF total <= 0 THEN FiniteNumber(ROne)
  ELSE IF ~draws.nan /\ draws.int > total THEN FiniteNumber(RZero)
  ELSE IF ~targetInDeck.nan /\ total - targetInDeck.int < 0 THEN FiniteNumber(RZero)
  ELSE IF draws.nan THEN FiniteNumber(ROne)
  ELSE IF targetInDeck.nan THEN NaNNumber
  ELSE FiniteNumber(zeroHit(total, targetInDeck.int, draws.int))

\* the sum of the noKeep loop: kMax = Math.min(l, n) is NaN when l or n is,
\* and then k <= kMax fails at once and sum stays 0
noKeepSumNumber(n, l) ==
  IF n.nan \/ l.nan THEN FiniteNumber(RZero)
  ELSE FiniteNumber(IF <<n.int, l.int>> \in DOMAIN noKeepSumTable
                    THEN noKeepSumTable[n.int, l.int]
                    ELSE noKeepSum(n.int, l.int))

\* probabilityAtLeastOne on any numbers
probabilityAtLeastOneNumber(keepMode, mulliganCount, targetsInDeck, drawsFromDeck) ==
  LET n == clampFloor(targetsInDeck, 0, 40)
      l == clampFloor(mulliganCount, 0, 40)
      m == clampFloor(drawsFromDeck, 0, 40)
  IN  IF keepMode = "keep"
      THEN LET pNoInitial == zeroHitNumber(40, n, FiniteInt(4))
               pNoMulligan == zeroHitNumber(36, n, l)
               pNoDraws == zeroHitNumber(36, n, m)
               pNo == NumberMul(NumberMul(pNoInitial, pNoMulligan), pNoDraws)
           IN  NumberComplement(pNo)
      ELSE LET qM == zeroHitNumber(36, n, m)
               pNo == NumberMul(qM, noKeepSumNumber(n, l))
           IN  NumberComplement(pNo)

\* probabilityAtLeastOneKeep on any numbers
probabilityAtLeastOneKeepNumber(n, l, m) ==
  LET nn == clampFloor(n, 0, 40)
      ll == clampFloor(l, 0, 4)
      mm == clampFloor(m, 0, 40)
      pNoMulligan == zeroHitNumber(36, nn, ll)
      pNoDraws == zeroHitNumber(36, nn, mm)
  IN  NumberComplement(NumberMul(pNoMulligan, pNoDraws))

MaxInputStep == 17

\* the arguments tried: NaN, the infinities and the multiples of 5/2 from
\* -5/2 to 5/2 * MaxInputStep (negative, fractional and above 40)
Inputs ==
  {[kind |-> "NaN", num |-> 0, den |-> 1],
   [kind |-> "Infinity", num |-> 0, den |-> 1],
   [kind |-> "-Infinity", num |-> 0, den |-> 1]}
  \cup {[kind |-> "finite", num |-> 5 * s, den |-> 2] : s \in -1..MaxInputStep}

InitNumber ==
  /\ fn = "none"
  /\ args \in [targetsInDeck : Inputs, mulliganCount : Inputs, drawsFromDeck : Inputs]
  /\ ret = FiniteNumber(RZero)

CallGeneralNumber(keepMode) ==
  /\ fn = "none"
  /\ fn' = keepMode
  /\ ret' = probabilityAtLeastOneNumber(keepMode, args.mulliganCount,
                                           args.targetsInDeck, args.drawsFromDeck)
  /\ UNCHANGED args

CallKeepNumber ==
  /\ fn = "none"
  /\ fn' = "keepOnly"
  /\ ret' = probabilityAtLeastOneKeepNumber(args.targetsInDeck, args.mulliganCount,
                                               args.drawsFromDeck)
  /\ UNCHANGED args

NextNumber ==
  \/ \E keepMode \in KeepModes : CallGeneralNumber(keepMode)
  \/ CallKeepNumber

SpecNumber == InitNumber /\ [][NextNumber]_vars

----------------------------------------------------------------------------
(* The iterations a call of probabilityAtLeastOne executes.                *)

\* how many times the body of the product loop of
\* zeroHitHypergeometricRatio starts: the loop leaves at i = draws, or from
\* inside the body (return 0) when numerator <= 0
RECURSIVE zeroHitLoopCount(_, _, _)
zeroHitLoopCount(nonTargets, draws, i) ==
  IF i < draws
  THEN IF nonTargets - i <= 0 THEN i + 1
       ELSE zeroHitLoopCount(nonTargets, draws, i + 1)
  ELSE i

\* the iterations of one call of zeroHitHypergeometricRatio: none when a
\* short-circuit rule returns
zeroHitIterations(total, targetInDeck, draws) ==
  IF draws <= 0 THEN 0
  ELSE IF targetInDeck <= 0 THEN 0
  ELSE IF total <= 0 THEN 0
  ELSE IF draws > total THEN 0
  ELSE LET nonTargets == total - targetInDeck
       IN  IF nonTargets < 0 THEN 0
           ELSE zeroHitLoopCount(nonTargets, draws, 0)

zeroHitIterationsTable ==
  [total \in {36, 40}, targetInDeck \in 0..40, draws \in 0..40 |->
     zeroHitIterations(total, targetInDeck, draws)]

\* how many times the body of the noKeep loop runs: k = 0, ..., kMax
RECURSIVE noKeepLoopCount(_, _)
noKeepLoopCount(kMax, k) ==
  IF k <= kMax THEN noKeepLoopCount(kMax, k + 1) ELSE k

\* noKeepIterations with kMax = Math.max(l, n)
noKeepIterationsToMax(n, l) ==
  LET kMax == IF l >= n THEN l ELSE n
  IN  noKeepLoopCount(kMax, 0)

\* the iterations of the noKeep loop of probabilityAtLeastOne
noKeepIterations(n, l) ==
  LET kMax == IF l <= n THEN l ELSE n
  IN  noKeepLoopCount(kMax, 0)

\* the largest number of a finite nonempty set of numbers
Largest(counts) == CHOOSE c \in counts : \A o \in counts : o <= c

\* one call of probabilityAtLeastOne: the most iterations any of its calls
\* of zeroHitHypergeometricRatio executes, and the iterations of its own loop
iterationsOf(keepMode, mulliganCount, targetsInDeck, drawsFromDeck) ==
  LET n == clampInt(targetsInDeck, 0, 40)
      l == clampInt(mulliganCount, 0, 40)
      m == clampInt(drawsFromDeck, 0, 40)
  IN  IF keepMode = "keep"
      THEN [zeroHit |-> Largest({zeroHitIterationsTable[40, n, 4],
                                 zeroHitIterationsTable[36, n, l],
                                 zeroHitIterationsTable[36, n, m]}),
            sum |-> 0]
      ELSE LET kMax == IF l <= n THEN l ELSE n
           IN  [zeroHit |-> Largest({zeroHitIterationsTable[36, n, m]} \cup
                                    {zeroHitIterationsTable[36, n - k, l] : k \in 0..kMax}),
                sum |-> noKeepIterations(n, l)]

CountGeneral(keepMode) ==
  /\ fn = "none"
  /\ fn' = keepMode
  /\ ret' = iterationsOf(keepMode, args.mulliganCount, args.targetsInDeck,
                          args.drawsFromDeck)
  /\ UNCHANGED args

NextIterations == \E keepMode \in KeepModes : CountGeneral(keepMode)

SpecIterations == Init /\ [][NextIterations]_vars

----------------------------------------------------------------------------
(* The weights P_l(k) of the noKeep loop of probabilityAtLeastOne.         *)

\* the sum of pl over the iterations k = lo, ..., hi of the loop
RECURSIVE plSum(_, _, _, _, _)
plSum(n, l, denomInitial, lo, hi) ==
  IF lo > hi THEN RZero
  ELSE IF lo = hi THEN plWeight(n, l, denomInitial, lo)
  ELSE LET mid == (lo + hi) \div 2
       IN  RAdd(plSum(n, l, denomInitial, lo, mid),
                plSum(n, l, denomInitial, mid + 1, hi))

\* the weights of one call: their sum and how many of them are not 0
plWeights(mulliganCount, targetsInDeck) ==
  LET n == clampInt(targetsInDeck, 0, 40)
      l == clampInt(mulliganCount, 0, 40)
      denomInitial == comb(36 + l, l)
      kMax == IF l <= n THEN l ELSE n
  IN  [sum |-> plSum(n, l, denomInitial, 0, kMax),
       nonZero |-> Cardinality({k \in 0..kMax :
                                  ~REq(plWeight(n, l, denomInitial, k), RZero)}),
       denomInitial |-> denomInitial]

InitWeights ==
  /\ fn = "none"
  /\ args \in [targetsInDeck : 0..MaxTargets, mulliganCount : 0..MaxMulligan]
  /\ ret = RZero

CallWeights ==
  /\ fn = "none"
  /\ fn' = "weights"
  /\ ret' = plWeights(args.mulliganCount, args.targetsInDeck)
  /\ UNCHANGED args

NextWeights == CallWeights

SpecWeights == InitWeights /\ [][NextWeights]_vars

----------------------------------------------------------------------------
(* DualRangeSlider.  args holds the props and the state the handlers see:   *)
(* min, max, step, valueMin, valueMax and dragging; fn is the event handled *)
(* last and ret the call of onChange its handler made.  The parent's        *)
(* onChange stores the pair (setNMin, setNMax), and the component renders   *)
(* again before the next event.                                            *)

\* Math.round of a rational x >= 0
MathRound(x) == MathFloor(RAdd(x, RDiv(ROne, RInt(2))))

\* quantize without the clamp
quantizeUnclamped(value, min, max, step) ==
  MathRound(RDiv(RSub(value, RInt(min)), RInt(step))) * step + min

quantize(value, min, max, step) ==
  LET snapped == MathRound(RDiv(RSub(value, RInt(min)), RInt(step))) * step + min
  IN  clampInt(snapped, min, max)

\* rect is containerRef.current?.getBoundingClientRect(): absent, or its
\* left and width
positionToValue(clientX, rect, min, max, step) ==
  IF ~rect.present THEN min
  ELSE LET x == clampInt(clientX - rect.left, 0, rect.width)
           ratio == IF rect.width = 0 THEN RZero ELSE RDiv(RInt(x), RInt(rect.width))
           raw == RAdd(RInt(min), RMul(ratio, RInt(max - min)))
       IN  quantize(raw, min, max, step)

MaxRange == 4
MaxStep == 2
MaxWidth == 4

Rects ==
  {[present |-> FALSE, left |-> 0, width |-> 0]}
  \cup [present : {TRUE}, left : 0..1, width : {0, MaxWidth}]

NoCall == [called |-> FALSE, minVal |-> 0, maxVal |-> 0]

InitSlider ==
  /\ fn = "none"
  /\ \E min \in 0..1 : \E max \in min..(min + MaxRange) : \E step \in 1..MaxStep :
       \E valueMin \in min..max : \E valueMax \in valueMin..max :
         args = [min |-> min, max |-> max, step |-> step, valueMin |-> valueMin,
                 valueMax |-> valueMax, dragging |-> "null"]
  /\ ret = NoCall

\* onMouseDown / onTouchStart of a handle: setDragging(handle)
Press(event, handle) ==
  /\ fn' = event
  /\ args' = [args EXCEPT !.dragging = handle]
  /\ ret' = NoCall

\* onMove / onTouchMove, registered while dragging
Move(event, clientX, rect) ==
  /\ args.dragging # "null"
  /\ fn' = event
  /\ LET val == positionToValue(clientX, rect, args.min, args.max, args.step)
     IN  IF args.dragging = "min"
         THEN LET next == IF val <= args.valueMax THEN val ELSE args.valueMax
              IN  IF next # args.valueMin
                  THEN /\ ret' = [called |-> TRUE, minVal |-> next,
                                  maxVal |-> args.valueMax]
                       /\ args' = [args EXCEPT !.valueMin = next]
                  ELSE ret' = NoCall /\ UNCHANGED args
         ELSE LET next == IF val >= args.valueMin THEN val ELSE args.valueMin
              IN  IF next # args.valueMax
                  THEN /\ ret' = [called |-> TRUE, minVal |-> args.valueMin,
                                  maxVal |-> next]
                       /\ args' = [args EXCEPT !.valueMax = next]
                  ELSE ret' = NoCall /\ UNCHANGED args

\* onTouchMove with no touch in e.touches: return
TouchMoveWithoutTouch ==
  /\ args.dragging # "null"
  /\ fn' = "touchmove"
  /\ ret' = NoCall
  /\ UNCHANGED args

\* onUp / onTouchEnd, registered while dragging: setDragging(null)
Release(event) ==
  /\ args.dragging # "null"
  /\ fn' = event
  /\ args' = [args EXCEPT !.dragging = "null"]
  /\ ret' = NoCall

NextSlider ==
  \/ \E event \in {"mousedown", "touchstart"} : \E handle \in {"min", "max"} :
       Press(event, handle)
  \/ \E event \in {"mousemove", "touchmove"} : \E clientX \in -1..(MaxWidth + 2) :
       \E rect \in Rects : Move(event, clientX, rect)
  \/ TouchMoveWithoutTouch
  \/ \E event \in {"mouseup", "touchend"} : Release(event)

SpecSlider == InitSlider /\ [][NextSlider]_vars

----------------------------------------------------------------------------
(* The calls of combination on its own.                                    *)

MaxBelowZero == 5
MaxCombination == 80

InitCombination ==
  /\ fn = "none"
  /\ args \in [n : (0 - MaxBelowZero)..MaxCombination,
               k : (0 - MaxBelowZero)..MaxCombination]
  /\ ret = RZero

CallCombination ==
  /\ fn = "none"
  /\ fn' = "combination"
  /\ ret' = combination(args.n, args.k)
  /\ UNCHANGED args

NextCombination == CallCombination

SpecCombination == InitCombination /\ [][NextCombination]_vars

----------------------------------------------------------------------------
(* Properties of the probability functions.                                *)

Returned == fn \in KeepModes \cup {"keepOnly"}

\* what the called function returns for other arguments
resultOf(f, a) ==
  IF f = "keepOnly"
  THEN probabilityAtLeastOneKeep(a.targetsInDeck, a.mulliganCount, a.drawsFromDeck)
  ELSE probabilityAtLeastOne(f, a.mulliganCount, a.targetsInDeck, a.drawsFromDeck)

\* C1: every value returned by probabilityAtLeastOne (both policies) and by
\* probabilityAtLeastOneKeep lies in the closed interval [0, 1].
C1_ResultInUnitInterval ==
  Returned => RLeq(RZero, ret) /\ RLeq(ret, ROne)

C1_Witness ==
  /\ fn = "noKeep"
  /\ args = [targetsInDeck |-> 3, mulliganCount |-> 4, drawsFromDeck |-> 9]
  /\ RCmp(RZero, ret) < 0
  /\ RCmp(ret, ROne) < 0

\* C2: for fixed n and m the returned probability does not decrease when the
\* mulligan count l grows by one: l in 0..39 for probabilityAtLeastOne under
\* either policy, l in 0..3 for probabilityAtLeastOneKeep.
C2_NonDecreasingInMulligan ==
  (\/ fn \in KeepModes /\ args.mulliganCount <= 39
   \/ fn = "keepOnly" /\ args.mulliganCount <= 3)
    => RLeq(ret, resultOf(fn, [args EXCEPT !.mulliganCount = @ + 1]))

\* noKeep with 36 or more cards returned: one more returned card lowers the
\* probability.
C2_Decreases ==
  /\ fn = "noKeep"
  /\ args.mulliganCount \in 36..39
  /\ RCmp(resultOf(fn, [args EXCEPT !.mulliganCount = @ + 1]), ret) < 0

\* C3: for fixed n and l the returned probability does not decrease when the
\* number of draws m grows by one, for both functions and both policies.
C3_NonDecreasingInDraws ==
  (Returned /\ args.drawsFromDeck <= 39)
    => RLeq(ret, resultOf(fn, [args EXCEPT !.drawsFromDeck = @ + 1]))

C3_Witness ==
  /\ fn = "noKeep"
  /\ args = [targetsInDeck |-> 2, mulliganCount |-> 3, drawsFromDeck |-> 5]
  /\ RCmp(ret, resultOf(fn, [args EXCEPT !.drawsFromDeck = @ + 1])) < 0

\* C4: for fixed l and m the returned probability does not decrease when the
\* number of targets n grows by one, for both functions and both policies.
C4_NonDecreasingInTargets ==
  (Returned /\ args.targetsInDeck <= 39)
    => RLeq(ret, resultOf(fn, [args EXCEPT !.targetsInDeck = @ + 1]))

C4_Witness ==
  /\ fn = "keepOnly"
  /\ args = [targetsInDeck |-> 2, mulliganCount |-> 3, drawsFromDeck |-> 5]
  /\ RCmp(ret, resultOf(fn, [args EXCEPT !.targetsInDeck = @ + 1])) < 0

\* what C5 equates: the noKeep result, probabilityAtLeastOneKeep(n, 0, m) and
\* 1 - zeroHitHypergeometricRatio(36, n, m)
C5_Agree ==
  /\ REq(ret, probabilityAtLeastOneKeep(args.targetsInDeck, 0, args.drawsFromDeck))
  /\ REq(ret, RSub(ROne, zeroHit(36, args.targetsInDeck,
                                args.drawsFromDeck)))

\* C5: with l = 0 the noKeep policy returns the same value as
\* probabilityAtLeastOneKeep(n, 0, m), which is 1 - zeroHitRatio(36, n, m), for
\* every n and m in 0..40.
C5_NoMulliganAgrees ==
  (fn = "noKeep" /\ args.mulliganCount = 0) => C5_Agree

\* C5 as the code has it: with l = 0 the noKeep policy agrees with
\* probabilityAtLeastOneKeep(n, 0, m) = 1 - zeroHitRatio(36, n, m) for n in
\* 0..36 and every m, and for n in 37..40 whenever m >= 1.
C5_NoMulliganAgreesInDeck ==
  (/\ fn = "noKeep"
   /\ args.mulliganCount = 0
   /\ (args.targetsInDeck <= 36 \/ args.drawsFromDeck >= 1)) => C5_Agree

C5_Witness ==
  /\ fn = "noKeep"
  /\ args = [targetsInDeck |-> 3, mulliganCount |-> 0, drawsFromDeck |-> 9]
  /\ C5_Agree
  /\ RCmp(RZero, ret) < 0
  /\ RCmp(ret, ROne) < 0

\* C6: under the keep policy with l in 0..4, the miss probability of the
\* general function is the miss probability of the keep-only function times
\* zeroHitRatio(40, n, 4): 1 - P(keep, n, l, m) =
\* zeroHitRatio(40, n, 4) * (1 - PKeep(n, l, m)).
C6_KeepFactorsThroughKeepOnly ==
  (fn = "keep" /\ args.mulliganCount <= 4)
    => REq(RSub(ROne, ret),
           RMul(zeroHit(40, args.targetsInDeck, 4),
                RSub(ROne, probabilityAtLeastOneKeep(args.targetsInDeck,
                                                     args.mulliganCount,
                                                     args.drawsFromDeck))))

C6_Witness ==
  /\ fn = "keep"
  /\ args = [targetsInDeck |-> 3, mulliganCount |-> 4, drawsFromDeck |-> 9]
  /\ ~REq(zeroHit(40, 3, 4), RZero)
  /\ RCmp(ret, probabilityAtLeastOneKeep(3, 4, 9)) > 0
  /\ RCmp(ret, ROne) < 0

C7_Case ==
  /\ fn = "keep"
  /\ args = [targetsInDeck |-> 3, mulliganCount |-> 0, drawsFromDeck |-> 0]

\* C7: probabilityAtLeastOne("keep", 0, 3, 0) equals
\* 1 - zeroHitRatio(40, 3, 4) and its table cell reads 27.75%.
C7_KeepThreeTargetsShows2775 ==
  C7_Case => /\ REq(ret, RSub(ROne, zeroHit(40, 3, 4)))
             /\ cellText(ret) = "27.75%"

\* C7 as the code has it: probabilityAtLeastOne("keep", 0, 3, 0) equals
\* 1 - zeroHitRatio(40, 3, 4) = 137/494 and its table cell reads 27.73%.
C7_KeepThreeTargetsShows2773 ==
  C7_Case => /\ REq(ret, RSub(ROne, zeroHit(40, 3, 4)))
             /\ REq(ret, RDiv(RInt(137), RInt(494)))
             /\ cellText(ret) = "27.73%"

C7_Witness ==
  C7_Case /\ cellText(ret) = "27.73%"

\* C8: under the keep policy, n = 0 gives probability 0 and n = 40 gives
\* probability 1, whatever l and m are.
C8_KeepExtremes ==
  fn = "keep" => /\ args.targetsInDeck = 0 => REq(ret, RZero)
                 /\ args.targetsInDeck = 40 => REq(ret, ROne)

C8_Witness ==
  /\ fn = "keep"
  /\ args = [targetsInDeck |-> 40, mulliganCount |-> 0, drawsFromDeck |-> 0]
  /\ REq(ret, ROne)

----------------------------------------------------------------------------
(* Properties of zeroHitHypergeometricRatio.                               *)

\* Pascal's triangle: row r + 1 from row r, by addition only.
PascalRow(prev) ==
  [j \in 1..(Len(prev) + 1) |->
     BigAdd(IF j = 1 THEN <<>> ELSE prev[j - 1],
            IF j > Len(prev) THEN <<>> ELSE prev[j])]

RECURSIVE PascalRows(_)
PascalRows(r) ==
  IF r = 0 THEN << <<BigOfInt(1)>> >>
  ELSE LET rows == PascalRows(r - 1)
       IN  Append(rows, PascalRow(rows[r]))

PascalTriangle == PascalRows(MaxTotal)

\* the binomial coefficient C(a, b), for a in 0..MaxTotal
Binomial(a, b) ==
  IF b < 0 \/ b > a THEN <<>> ELSE PascalTriangle[a + 1][b + 1]

ZeroHitCase ==
  /\ fn = "zeroHit"
  /\ args.total >= 0
  /\ args.targetInDeck >= 0
  /\ args.targetInDeck <= args.total

\* C9: for total in 0..40, t in 0..total and draws in 0..total,
\* zeroHitHypergeometricRatio(total, t, draws) is the exact ratio
\* C(total - t, draws) / C(total, draws).
C9_ZeroHitIsBinomialRatio ==
  (ZeroHitCase /\ args.draws >= 0 /\ args.draws <= args.total)
    => /\ ~ret.neg
       /\ BigCmp(BigMul(ret.n, Binomial(args.total, args.draws)),
                 BigMul(ret.d, Binomial(args.total - args.targetInDeck,
                                        args.draws))) = 0

C9_Witness ==
  /\ fn = "zeroHit"
  /\ args = [total |-> 40, targetInDeck |-> 3, draws |-> 4]
  /\ REq(ret, RDiv(RInt(357), RInt(494)))

\* C10: zeroHitHypergeometricRatio(total, t, draws) is 0 whenever
\* draws > total - t, for total >= 0, 0 <= t <= total and any draws >= 0.
C10_ZeroWhenTooManyDraws ==
  (ZeroHitCase /\ args.draws >= 0 /\ args.draws > args.total - args.targetInDeck)
    => REq(ret, RZero)

\* C10 as the code has it: zeroHitHypergeometricRatio(total, t, draws) is 0
\* whenever draws > total - t and t >= 1, for total >= 0, t <= total and any
\* draws >= 0.
C10_ZeroWhenTooManyDrawsWithTargets ==
  (/\ ZeroHitCase
   /\ args.targetInDeck >= 1
   /\ args.draws >= 0
   /\ args.draws > args.total - args.targetInDeck) => REq(ret, RZero)

C10_Witness ==
  /\ fn = "zeroHit"
  /\ args = [total |-> 36, targetInDeck |-> 2, draws |-> 35]
  /\ REq(ret, RZero)

\* C11: the short-circuit rules of zeroHitHypergeometricRatio apply in a fixed
\* order over all integer arguments: draws <= 0 gives 1; otherwise
\* targetInDeck <= 0 gives 1; otherwise total <= 0 gives 1; otherwise
\* draws > total gives 0; otherwise targetInDeck > total gives 0.
C11_ShortCircuitOrder ==
  fn = "zeroHit" =>
    IF args.draws <= 0 THEN REq(ret, ROne)
    ELSE IF args.targetInDeck <= 0 THEN REq(ret, ROne)
    ELSE IF args.total <= 0 THEN REq(ret, ROne)
    ELSE IF args.draws > args.total THEN REq(ret, RZero)
    ELSE args.targetInDeck > args.total => REq(ret, RZero)

\* no targets and more draws than cards: the second rule wins over the fourth
C11_Witness ==
  /\ fn = "zeroHit"
  /\ args = [total |-> 3, targetInDeck |-> 0, draws |-> 5]
  /\ REq(ret, ROne)

----------------------------------------------------------------------------
(* Properties of combination.                                              *)

\* Pascal's triangle extended by cnt rows
RECURSIVE PascalExtend(_, _)
PascalExtend(rows, cnt) ==
  IF Len(rows) = 0 \/ cnt = 0 THEN rows
  ELSE IF cnt = 1 THEN Append(rows, PascalRow(rows[Len(rows)]))
  ELSE PascalExtend(PascalExtend(rows, cnt \div 2), cnt - (cnt \div 2))

PascalWide == PascalExtend(<< <<BigOfInt(1)>> >>, MaxCombination)

\* the binomial coefficient C(a, b), for a in 0..MaxCombination
BinomialWide(a, b) ==
  IF b < 0 \/ b > a THEN <<>> ELSE PascalWide[a + 1][b + 1]

\* C12: combination(n, k) is 0 when k < 0 or k > n, and otherwise the exact
\* binomial coefficient C(n, k) of Pascal's recurrence; so combination(n, k) =
\* combination(n, n - k) for 0 <= k <= n and combination(n, 0) =
\* combination(n, n) = 1 for n >= 0.
C12_CombinationIsBinomial ==
  fn = "combination" =>
    IF args.k < 0 \/ args.k > args.n THEN REq(ret, RZero)
    ELSE /\ ~ret.neg
         /\ BigCmp(ret.n, BigMul(ret.d, BinomialWide(args.n, args.k))) = 0
         /\ REq(ret, comb(args.n, args.n - args.k))
         /\ (args.k = 0 \/ args.k = args.n) => REq(ret, ROne)

C12_Witness ==
  /\ fn = "combination"
  /\ args = [n |-> 40, k |-> 36]
  /\ REq(ret, RInt(91390))

----------------------------------------------------------------------------
(* Properties of the functions on invalid input.                           *)

\* C13: for any numeric arguments n, l, m (negative, above 40, fractional,
\* +Infinity, -Infinity, NaN) probabilityAtLeastOne under either policy and
\* probabilityAtLeastOneKeep return a number in [0, 1], never NaN.
C13_TotalOnAnyNumber ==
  Returned => /\ ~ret.nan
              /\ RLeq(RZero, ret.val)
              /\ RLeq(ret.val, ROne)

\* a NaN target count and at least one draw: the result is NaN
C13_ReturnsNaN ==
  /\ fn = "keep"
  /\ args.targetsInDeck.kind = "NaN"
  /\ args.mulliganCount.kind = "finite"
  /\ args.drawsFromDeck.kind = "finite"
  /\ ret.nan

----------------------------------------------------------------------------
(* Properties of the loops.                                                *)

\* min(l, n) + 1 for the arguments of the call
C14_SumIterations ==
  (IF args.mulliganCount <= args.targetsInDeck
   THEN args.mulliganCount ELSE args.targetsInDeck) + 1

\* C14: for n, l, m in 0..40 each call of zeroHitHypergeometricRatio executes
\* at most 40 iterations of its loop, and the noKeep summation loop executes
\* min(l, n) + 1 iterations, which is at most 5.
C14_IterationBounds ==
  fn \in KeepModes =>
    /\ ret.zeroHit <= 40
    /\ fn = "noKeep" => (ret.sum = C14_SumIterations /\ ret.sum <= 5)

\* C14 as the code has it: each call of zeroHitHypergeometricRatio executes
\* at most 40 iterations, and the noKeep summation loop executes
\* min(l, n) + 1 iterations, which is at most 41, and at most 5 when l <= 4.
C14_IterationBoundsOfClampedRange ==
  (fn \in KeepModes /\ args.targetsInDeck <= 40 /\ args.mulliganCount <= 40) =>
    /\ ret.zeroHit <= 40
    /\ fn = "noKeep" => /\ ret.sum = C14_SumIterations
                        /\ ret.sum <= 41
                        /\ args.mulliganCount <= 4 => ret.sum <= 5

C14_Witness ==
  /\ fn = "noKeep"
  /\ args = [targetsInDeck |-> 40, mulliganCount |-> 40, drawsFromDeck |-> 9]
  /\ ret.sum = 41
  /\ ret.zeroHit = 0

----------------------------------------------------------------------------
(* Properties of the noKeep weights.                                       *)

C15_Case ==
  /\ fn = "weights"
  /\ args.targetsInDeck <= 40
  /\ args.mulliganCount <= 40

\* C15: summed over k = 0..min(l, n) the weights P_l(k) are a probability
\* distribution: for n and l in 0..40 with n <= 36 + l their sum is exactly
\* 1; for n > 36 + l every P_l(k) is 0, the sum is 0 and the noKeep result
\* is 1.
C15_WeightsSumToOne ==
  C15_Case =>
    IF args.targetsInDeck <= 36 + args.mulliganCount
    THEN REq(ret.sum, ROne)
    ELSE /\ ret.nonZero = 0
         /\ REq(ret.sum, RZero)
         /\ \A drawn \in 0..40 :
              REq(probabilityAtLeastOne("noKeep", args.mulliganCount,
                                        args.targetsInDeck, drawn), ROne)

C15_Witness ==
  /\ fn = "weights"
  /\ args = [targetsInDeck |-> 20, mulliganCount |-> 30]
  /\ ret.nonZero = 21
  /\ REq(ret.sum, ROne)

\* C16: for every l in 0..40 the denominator combination(36 + l, l) of the
\* noKeep weights is at least 1, so the guard denomInitial === 0 is never
\* taken.
C16_DenominatorAtLeastOne ==
  fn = "weights" => RLeq(ROne, ret.denomInitial)

C16_Witness ==
  /\ fn = "weights"
  /\ args = [targetsInDeck |-> 3, mulliganCount |-> 4]
  /\ REq(ret.denomInitial, RInt(91390))

----------------------------------------------------------------------------
(* Properties of DualRangeSlider.                                          *)

\* C17: starting from min <= valueMin <= valueMax <= max, after any
\* sequence of press, move and release events every pair passed to onChange
\* satisfies min <= valueMin <= valueMax <= max and so do the values kept;
\* a move changes only the handle being dragged; onChange is not invoked
\* while no handle is being dragged.
C17_SliderKeepsOrder ==
  [][/\ args'.min <= args'.valueMin
     /\ args'.valueMin <= args'.valueMax
     /\ args'.valueMax <= args'.max
     /\ ret'.called =>
          /\ args.dragging # "null"
          /\ args.min <= ret'.minVal
          /\ ret'.minVal <= ret'.maxVal
          /\ ret'.maxVal <= args.max
          /\ args.dragging = "min" => ret'.maxVal = args.valueMax
          /\ args.dragging = "max" => ret'.minVal = args.valueMin
          /\ args'.valueMin = ret'.minVal
          /\ args'.valueMax = ret'.maxVal]_vars

\* the min handle dragged past the max handle stops at it
C17_Witness ==
  /\ fn = "touchmove"
  /\ ret.called
  /\ args.dragging = "min"
  /\ args.valueMin = args.valueMax
  /\ args.valueMax < args.max
  /\ args.step = 2

====
